---- MODULE Spec2Model ----
(***************************************************************************)
(* Plugin Lifecycle Manager (internal/plugin manager, Manager) and the     *)
(* host driver registry (internal/op/driver.go) of OpenList.               *)
(*                                                                         *)
(* Host threads call LoadPlugin, UnloadPlugin, ReloadPlugin and Shutdown   *)
(* concurrently.  Every call is cut into steps at the points where the Go  *)
(* code blocks: acquiring Manager.mu, a remote call to the plugin, and     *)
(* acquiring op.driverMutex.  sync.RWMutex is not reentrant: a Lock() by   *)
(* the goroutine that already holds the mutex blocks like any other.       *)
(*                                                                         *)
(* Spec, FairSpec: two goroutines calling the Manager and op.RegisterDriver*)
(* in any interleaving.  HostSpec: the main goroutine of cmd, running      *)
(* Init (the scan of the plugin directories), RescanPlugins and Release.   *)
(* CallerSpec: one goroutine loading and unloading while another uses the  *)
(* accessors of the Manager and a PluginDriverAdapter                      *)
(* (internal/plugin/adapter.go).                                           *)
(***************************************************************************)
EXTENDS Integers, Sequences, FiniteSets, TLC

\* ------------------------------------------------------------------ bounds
\* plugin.NewClient calls (subprocess handles) over a whole run
MaxProcs == 2
\* RescanPlugins calls the host makes between cmd.Init and cmd.Release
MaxRescans == 1
\* Init calls a host makes on one PluginDriverAdapter
MaxInits == 2

\* ----------------------------------------------------------------- fixtures
Threads == {"t1", "t2"}
NoThread == "none"

\* plugin executables on disk; "missing" fails os.Stat
Paths == {"demo.exe", "util.exe", "loc.exe", "missing"}

PathExists(path) == path # "missing"

\* PluginInfo.Name the executable answers to Plugin.GetInfo
InfoName(path) ==
    CASE path = "demo.exe" -> "demo"
      [] path = "util.exe" -> "util"
      [] path = "loc.exe"  -> "loc"
      [] OTHER             -> "none"

\* the driver names the executable answers to Plugin.GetDrivers
PluginDrivers(path) ==
    CASE path = "demo.exe" -> <<"DemoFS">>
      [] path = "loc.exe"  -> <<"Local">>
      [] OTHER             -> << >>

PluginNames == {"demo", "util", "loc"}
DriverNames == {"DemoFS", "Local"}
\* driver names that built-in drivers register at program start
BuiltinNames == {"Local"}

ProcIds == 1..MaxProcs

Range(s) == {s[k] : k \in DOMAIN s}

\* the directories cmd.loadPlugins and RescanPlugins go through, in order
PluginDirs == <<"./plugins", "./data/plugins",
                "/usr/local/share/openlist/plugins", "/opt/openlist/plugins">>

\* os.Stat(dir) finds the directory
DirExists(dir) == dir \in {"./plugins", "/usr/local/share/openlist/plugins"}

\* os.ReadDir(dir) succeeds
DirReadable(dir) == dir = "./plugins"

\* the entries os.ReadDir(dir) returns
DirEntries(dir) ==
    IF dir = "./plugins"
      THEN <<"cache", "readme.txt", "util.exe", "loc.exe">>
      ELSE << >>

\* entry.IsDir()
IsDir(name) == name = "cache"

\* filepath.Ext(name)
Ext(name) ==
    CASE name \in {"demo.exe", "util.exe", "loc.exe"} -> ".exe"
      [] name = "readme.txt" -> ".txt"
      [] OTHER -> ""

\* the entries of dir LoadPluginsFromDir calls LoadPlugin for
Candidates(dir) ==
    {name \in Range(DirEntries(dir)) :
        ~IsDir(name) /\ (Ext(name) = ".exe" \/ Ext(name) = "")}

\* filepath.Join(dir, name): no file name occurs in two directories, so
\* the name stands for the joined path
JoinPath(dir, name) == name

\* a DriverConstructor: a built-in one, or the closure of registerPluginDriver
\* capturing (pluginClient, driverName)
BuiltinConstructor(d) == [kind |-> "builtin", client |-> 0, driverName |-> d]
PluginConstructor(p, d) == [kind |-> "plugin", client |-> p, driverName |-> d]
\* the constructor a host package passes to op.RegisterDriver at run time
LateConstructor(d) == [kind |-> "late", client |-> 0, driverName |-> d]

VARIABLES
    plugins,        \* Manager.plugins: identity name -> PluginInstance
    mu,             \* Manager.mu: the thread holding it exclusively, or NoThread
    driverMap,      \* op.driverMap: driver name -> DriverConstructor
    driverInfoMap,  \* op.driverInfoMap: the names it has an Info for
    driverMutex,    \* op.driverMutex: the thread holding it exclusively
    procs,          \* the subprocess behind each plugin.Client
    nclients,       \* plugin.Client handles created so far
    th,             \* per thread: position and locals of the call it runs
    raced,          \* calls that read Manager.plugins, not holding mu, while
                    \* another thread held mu exclusively
    fatal,          \* the Go runtime aborted the host process
    host            \* the host program (cmd): db, the database handle
                    \* ("unopened", "open", "closed"); scanned, the plugin
                    \* directories cmd.Init has been through; rescans, the
                    \* RescanPlugins calls made

vars == <<plugins, mu, driverMap, driverInfoMap, driverMutex, procs, nclients,
          th, raced, fatal, host>>

\* a thread between calls.  op: the exported call it runs; pluginPath,
\* pluginName: its arguments; client: the plugin.Client LoadPlugin creates;
\* inst: the Client of the instance UnloadPlugin found; drivers, i: the slice
\* a loop ranges over and its position; orig: the Client of the instance
\* ReloadPlugin found; todo: the entries Shutdown has still to visit;
\* err: the call returned a non-nil error; result: the map GetLoadedPlugins
\* returned, each *PluginInstance named by its Client; dirs: the plugin
\* directories a loop over pluginDirs has still to visit; scan: the
\* entries LoadPluginsFromDir has still to visit; tried, failed: the files
\* of this directory LoadPlugin was called for, and returned an error for.
\* A thread holding a PluginDriverAdapter: inst, the Client its pluginClient
\* stub talks to; driverName; storage, 0 for a nil a.storage; method, the
\* adapter method it runs; calls, the stub calls that method has made;
\* rpc, how the stub call ended; inits, the Plugin.InitDriver calls sent
\* for this (plugin, driver, storage)
Idle == [pc |-> "idle", op |-> "none", pluginPath |-> "none",
         pluginName |-> "none", client |-> 0, inst |-> 0, drivers |-> << >>,
         i |-> 0, orig |-> 0, todo |-> {}, err |-> FALSE,
         result |-> [x \in {} |-> 0],
         dirs |-> << >>, scan |-> << >>, tried |-> {}, failed |-> {},
         driverName |-> "none", storage |-> 0, method |-> "none",
         calls |-> 0, rpc |-> "none", inits |-> 0]

\* a subprocess: "none" (not started), "spawned" (started, no handshake),
\* "handshaked", "enumerated" (handshaked and GetDrivers answered),
\* "killed" (terminated by client.Kill()), "exited" (gone on its own)
NoProc == "none"

AliveIn(ps, p) == ps[p] \in {"spawned", "handshaked", "enumerated"}
Alive(p) == AliveIn(procs, p)
Handshaked(p) == procs[p] \in {"handshaked", "enumerated"}

\* make(map[string]*PluginInstance)
EmptyMap == [x \in {} |-> 0]

\* the registry as the built-in drivers in B leave it
BuiltinRegistry(B) == [d \in B |-> BuiltinConstructor(d)]

\* the program before cmd.Init: P, the plugin.Client handles a run can make
InitWith(P) ==
    /\ plugins = EmptyMap
    /\ mu = NoThread
    /\ \E B \in SUBSET BuiltinNames :
          /\ driverMap = BuiltinRegistry(B)
          /\ driverInfoMap = B
    /\ driverMutex = NoThread
    /\ procs = [p \in P |-> NoProc]
    /\ nclients = 0
    /\ th = [t \in Threads |-> Idle]
    /\ raced = {}
    /\ fatal = FALSE
    /\ host = [db |-> "unopened", scanned |-> {}, rescans |-> 0]

Init == InitWith(ProcIds)

\* ------------------------------------------------------------- helpers
\* client.Kill(): the subprocess is terminated
ClientKill(ps, p) == [ps EXCEPT ![p] = "killed"]

\* delete(m, k) on a Go map
MapDelete(m, k) == [x \in DOMAIN m \ {k} |-> m[x]]

\* m[k] = v on a Go map
MapPut(m, k, v) == [x \in DOMAIN m \cup {k} |-> IF x = k THEN v ELSE m[x]]

\* the exported calls that run LoadPluginsFromDir over pluginDirs
ScanOps == {"Init", "RescanPlugins"}

\* the call of thread t returns e to a caller outside the Manager, which
\* holds the value until it moves on
Done(t, e) ==
    [Idle EXCEPT !.pc = "done", !.err = e, !.op = th[t].op,
                 !.pluginPath = th[t].pluginPath,
                 !.pluginName = th[t].pluginName,
                 !.client = th[t].client, !.orig = th[t].orig]

\* LoadPlugin has returned e to LoadPluginsFromDir, which logs an error;
\* rest: the entries the loop still visits
BackInScan(t, e, rest) ==
    [th[t] EXCEPT !.pc = "sc_entry", !.pluginPath = "none", !.client = 0,
                  !.drivers = << >>, !.i = 0, !.scan = rest,
                  !.failed = IF e THEN @ \cup {th[t].pluginPath} ELSE @]

\* Shutdown has returned to cmd.Release: db.Close() is next
BackInRelease == [Idle EXCEPT !.pc = "rel_close", !.op = "Release"]

\* a LoadPluginsFromDir that returns at the first LoadPlugin error
ReturnedEndsScan(t, e) ==
    IF th[t].op \in ScanOps
      THEN BackInScan(t, e, IF e THEN << >> ELSE th[t].scan)
      ELSE IF th[t].op = "Release" THEN BackInRelease ELSE Done(t, e)

\* the call of thread t returns e: to LoadPluginsFromDir, whose loop over
\* the entries goes on whatever e is, to cmd.Release, or to an outside caller
Returned(t, e) ==
    IF th[t].op \in ScanOps
      THEN BackInScan(t, e, th[t].scan)
      ELSE IF th[t].op = "Release" THEN BackInRelease ELSE Done(t, e)

\* exec.Command(pluginPath) started by client.Client()
Spawned(ps, p, ok) ==
    [ps EXCEPT ![p] = IF ok THEN "handshaked" ELSE "spawned"]

\* a remote call can only be answered by a live subprocess
CanAnswer(p) == Alive(p)

\* ------------------------------------------------------ callers of Manager
\* calls under way that will still create a plugin.Client
Pending == {u \in Threads : /\ th[u].op \in {"LoadPlugin", "ReloadPlugin"}
                            /\ th[u].pc # "done"
                            /\ th[u].client = 0}

\* a further call may create a client without exceeding MaxProcs
ClientLeft == nclients + Cardinality(Pending) < MaxProcs

StartLoadPlugin(t, path) ==
    /\ ~fatal
    /\ th[t].pc = "idle"
    /\ ClientLeft
    /\ th' = [th EXCEPT ![t] = [Idle EXCEPT !.pc = "ld_lock", !.op = "LoadPlugin",
                                            !.pluginPath = path]]
    /\ UNCHANGED <<plugins, mu, driverMap, driverInfoMap, driverMutex, procs,
                   nclients, raced, fatal, host>>

\* the caller takes the returned value; the thread is free for the next call
Finish(t) ==
    /\ ~fatal
    /\ th[t].pc = "done"
    /\ th' = [th EXCEPT ![t] = Idle]
    /\ UNCHANGED <<plugins, mu, driverMap, driverInfoMap, driverMutex, procs,
                   nclients, raced, fatal, host>>

\* ----------------------------------------------------------- LoadPlugin
\* m.mu.Lock(); os.Stat(pluginPath); plugin.NewClient(...)
LoadLock(t) ==
    /\ ~fatal
    /\ th[t].pc = "ld_lock"
    /\ mu = NoThread
    /\ IF PathExists(th[t].pluginPath)
         THEN /\ mu' = t
              /\ nclients' = nclients + 1
              /\ th' = [th EXCEPT ![t].pc = "ld_connect",
                                  ![t].client = nclients + 1]
         ELSE /\ mu' = NoThread
              /\ nclients' = nclients
              /\ th' = [th EXCEPT ![t] = Returned(t, TRUE)]
    /\ UNCHANGED <<plugins, driverMap, driverInfoMap, driverMutex, procs,
                   raced, fatal, host>>

\* LoadFail that returns the error without client.Kill()
LoadFailNoKill(t, ps) ==
    /\ procs' = ps
    /\ mu' = NoThread
    /\ th' = [th EXCEPT ![t] = Returned(t, TRUE)]
    /\ UNCHANGED <<plugins, driverMap, driverInfoMap, driverMutex, nclients,
                   raced, fatal, host>>

\* "client.Kill(); return fmt.Errorf(...)" with the deferred m.mu.Unlock()
LoadFail(t, ps) ==
    /\ procs' = ClientKill(ps, th[t].client)
    /\ mu' = NoThread
    /\ th' = [th EXCEPT ![t] = Returned(t, TRUE)]
    /\ UNCHANGED <<plugins, driverMap, driverInfoMap, driverMutex, nclients,
                   raced, fatal, host>>

\* rpcClient, err := client.Client(): start the subprocess and handshake
LoadConnect(t) ==
    /\ ~fatal
    /\ th[t].pc = "ld_connect"
    /\ \E ok \in BOOLEAN :
         LET ps == Spawned(procs, th[t].client, ok) IN
         IF ok
           THEN /\ procs' = ps
                /\ th' = [th EXCEPT ![t].pc = "ld_dispense"]
                /\ UNCHANGED <<plugins, mu, driverMap, driverInfoMap,
                               driverMutex, nclients, raced, fatal, host>>
           ELSE LoadFail(t, ps)

\* raw, err := rpcClient.Dispense("driver-plugin")
LoadDispense(t) ==
    /\ ~fatal
    /\ th[t].pc = "ld_dispense"
    /\ \/ /\ CanAnswer(th[t].client)
          /\ th' = [th EXCEPT ![t].pc = "ld_getinfo"]
          /\ UNCHANGED <<plugins, mu, driverMap, driverInfoMap, driverMutex,
                         procs, nclients, raced, fatal, host>>
       \/ LoadFail(t, procs)

\* the exists branch of LoadPlugin killing the client of the entry it
\* found instead of the one it has just started
LoadAlreadyLoadedKillsOld(t) ==
    /\ procs' = ClientKill(procs,
                           plugins[InfoName(th[t].pluginPath)].Client)
    /\ mu' = NoThread
    /\ th' = [th EXCEPT ![t] = Returned(t, FALSE)]
    /\ UNCHANGED <<plugins, driverMap, driverInfoMap, driverMutex, nclients,
                   raced, fatal, host>>

\* "Plugin %s already loaded, skipping": client.Kill(); return nil
LoadAlreadyLoaded(t) ==
    /\ procs' = ClientKill(procs, th[t].client)
    /\ mu' = NoThread
    /\ th' = [th EXCEPT ![t] = Returned(t, FALSE)]
    /\ UNCHANGED <<plugins, driverMap, driverInfoMap, driverMutex, nclients,
                   raced, fatal, host>>

\* LoadGetInfo that puts the instance into m.plugins as soon as the identity
\* is known, before GetDrivers
LoadGetInfoStoresEarly(t) ==
    /\ ~fatal
    /\ th[t].pc = "ld_getinfo"
    /\ \/ /\ CanAnswer(th[t].client)
          /\ IF InfoName(th[t].pluginPath) \in DOMAIN plugins
               THEN LoadAlreadyLoaded(t)
               ELSE /\ th' = [th EXCEPT ![t].pc = "ld_getdrivers"]
                    /\ plugins' = MapPut(plugins, InfoName(th[t].pluginPath),
                                         [Name |-> InfoName(th[t].pluginPath),
                                          Path |-> th[t].pluginPath,
                                          Client |-> th[t].client,
                                          Drivers |-> << >>])
                    /\ UNCHANGED <<mu, driverMap, driverInfoMap, driverMutex,
                                   procs, nclients, raced, fatal, host>>
       \/ LoadFail(t, procs)

\* LoadGetInfo without the "already loaded" test of m.plugins
LoadGetInfoNoExistsCheck(t) ==
    /\ ~fatal
    /\ th[t].pc = "ld_getinfo"
    /\ \/ /\ CanAnswer(th[t].client)
          /\ th' = [th EXCEPT ![t].pc = "ld_getdrivers"]
          /\ UNCHANGED <<plugins, mu, driverMap, driverInfoMap, driverMutex,
                         procs, nclients, raced, fatal, host>>
       \/ LoadFail(t, procs)

\* info, err := driverPlugin.GetInfo(); if _, exists := m.plugins[info.Name]
LoadGetInfo(t) ==
    /\ ~fatal
    /\ th[t].pc = "ld_getinfo"
    /\ \/ /\ CanAnswer(th[t].client)
          /\ IF InfoName(th[t].pluginPath) \in DOMAIN plugins
               THEN LoadAlreadyLoaded(t)
               ELSE /\ th' = [th EXCEPT ![t].pc = "ld_getdrivers"]
                    /\ UNCHANGED <<plugins, mu, driverMap, driverInfoMap,
                                   driverMutex, procs, nclients, raced,
                                   fatal, host>>
       \/ LoadFail(t, procs)

\* drivers, err := driverPlugin.GetDrivers()
LoadGetDrivers(t) ==
    /\ ~fatal
    /\ th[t].pc = "ld_getdrivers"
    /\ \/ /\ CanAnswer(th[t].client)
          /\ procs' = [procs EXCEPT ![th[t].client] = "enumerated"]
          /\ th' = [th EXCEPT ![t].pc = "ld_register",
                              ![t].drivers = PluginDrivers(th[t].pluginPath),
                              ![t].i = 1]
          /\ UNCHANGED <<plugins, mu, driverMap, driverInfoMap, driverMutex,
                         nclients, raced, fatal, host>>
       \/ LoadFail(t, procs)

\* op.IsDriverRegistered(name): RLock; _, exists := driverMap[name]; RUnlock
IsDriverRegistered(name) == name \in DOMAIN driverMap

\* op.GetDriver(name): RLock; n, ok := driverMap[name]; the error
\* "no driver named" when the name is absent, else the constructor
GetDriver(name) ==
    IF name \in DOMAIN driverMap
      THEN [n |-> driverMap[name], err |-> FALSE]
      ELSE [n |-> LateConstructor("nil"), err |-> TRUE]

\* op.GetDriverNames(): RLock; the keys of driverInfoMap (in the order the Go
\* map iteration yields them, which no caller may rely on)
GetDriverNames == driverInfoMap

\* registerPluginDriver without the name-conflict test
RegisterPluginDriverNoCheck(t) ==
    /\ ~fatal
    /\ th[t].pc = "ld_register"
    /\ th[t].i <= Len(th[t].drivers)
    /\ driverMutex = NoThread
    /\ th' = [th EXCEPT ![t].pc = "rd_lock"]
    /\ UNCHANGED <<plugins, mu, driverMap, driverInfoMap, driverMutex, procs,
                   nclients, raced, fatal, host>>

\* registerPluginDriver up to the call of op.RegisterDriver: a registered
\* name is skipped with a warning
RegisterPluginDriverCheck(t) ==
    /\ ~fatal
    /\ th[t].pc = "ld_register"
    /\ th[t].i <= Len(th[t].drivers)
    /\ driverMutex = NoThread
    /\ IF IsDriverRegistered(th[t].drivers[th[t].i])
         THEN th' = [th EXCEPT ![t].i = @ + 1]
         ELSE th' = [th EXCEPT ![t].pc = "rd_lock"]
    /\ UNCHANGED <<plugins, mu, driverMap, driverInfoMap, driverMutex, procs,
                   nclients, raced, fatal, host>>

\* a host package calls op.RegisterDriver with a constructor of its own
\* whose Config().Name is d
StartRegisterDriver(t, d) ==
    /\ ~fatal
    /\ th[t].pc = "idle"
    /\ th' = [th EXCEPT ![t] = [Idle EXCEPT !.pc = "rd_lock",
                                            !.op = "RegisterDriver",
                                            !.drivers = <<d>>, !.i = 1]]
    /\ UNCHANGED <<plugins, mu, driverMap, driverInfoMap, driverMutex, procs,
                   nclients, raced, fatal, host>>

\* op.RegisterDriver with a registerDriverItems that takes no lock: it runs
\* to its end, driverInfoMap[config.Name] = ...; driverMap[Name] = driver
RegisterDriverOverwrites(t) ==
    /\ ~fatal
    /\ th[t].pc = "rd_lock"
    /\ driverMutex = NoThread
    /\ LET d == th[t].drivers[th[t].i] IN
         /\ driverMap' = MapPut(driverMap, d,
                            IF th[t].op = "RegisterDriver"
                              THEN LateConstructor(d)
                              ELSE PluginConstructor(th[t].client, d))
         /\ driverInfoMap' = driverInfoMap \cup {d}
    /\ th' = [th EXCEPT ![t] = IF th[t].op = "RegisterDriver"
                                 THEN Returned(t, FALSE)
                                 ELSE [th[t] EXCEPT !.pc = "ld_register",
                                                    !.i = @ + 1]]
    /\ UNCHANGED <<plugins, mu, driverMutex, procs, nclients, raced, fatal,
                   host>>

\* op.RegisterDriver: driverMutex.Lock(); tempDriver := driver();
\* tempConfig := tempDriver.Config(); then registerDriverItems is entered,
\* whose own driverMutex.Lock() waits for the mutex this goroutine holds.
\* No goroutine ever releases it, so the rest of RegisterDriver
\* (driverInfoMap[config.Name] = ..., driverMap[tempConfig.Name] = driver)
\* is never executed by any run and has no action here.
RegisterDriverLock(t) ==
    /\ ~fatal
    /\ th[t].pc = "rd_lock"
    /\ driverMutex = NoThread
    /\ driverMutex' = t
    /\ th' = [th EXCEPT ![t].pc = "rdi_lock"]
    /\ UNCHANGED <<plugins, mu, driverMap, driverInfoMap, procs, nclients,
                   raced, fatal, host>>

\* the PluginInstance LoadPlugin builds
NewInstance(t) ==
    [Name |-> InfoName(th[t].pluginPath), Path |-> th[t].pluginPath,
     Client |-> th[t].client, Drivers |-> th[t].drivers]

\* m.plugins[info.Name] = pluginInstance; return nil
LoadStore(t) ==
    /\ ~fatal
    /\ th[t].pc = "ld_register"
    /\ th[t].i > Len(th[t].drivers)
    /\ plugins' = MapPut(plugins, InfoName(th[t].pluginPath), NewInstance(t))
    /\ mu' = NoThread
    /\ th' = [th EXCEPT ![t] = Returned(t, FALSE)]
    /\ UNCHANGED <<driverMap, driverInfoMap, driverMutex, procs, nclients,
                   raced, fatal, host>>

\* ---------------------------------------------------------- UnloadPlugin
StartUnloadPlugin(t, name) ==
    /\ ~fatal
    /\ th[t].pc = "idle"
    /\ th' = [th EXCEPT ![t] = [Idle EXCEPT !.pc = "ul_lock",
                                            !.op = "UnloadPlugin",
                                            !.pluginName = name]]
    /\ UNCHANGED <<plugins, mu, driverMap, driverInfoMap, driverMutex, procs,
                   nclients, raced, fatal, host>>

\* UnloadPlugin returns e with the deferred m.mu.Unlock().  Called by
\* ReloadPlugin, a nil result goes on to m.LoadPlugin(pluginPath) and an
\* error makes ReloadPlugin return it ("failed to unload plugin")
UnloadReturn(t, e) ==
    /\ mu' = NoThread
    /\ th' = [th EXCEPT ![t] =
                IF th[t].op = "ReloadPlugin" /\ ~e
                  THEN [Idle EXCEPT !.pc = "ld_lock", !.op = th[t].op,
                                    !.pluginName = th[t].pluginName,
                                    !.pluginPath = th[t].pluginPath,
                                    !.orig = th[t].orig]
                  ELSE Returned(t, e)]

\* UnloadPlugin that returns nil for a name it does not find
UnloadLockNotFoundNil(t) ==
    /\ ~fatal
    /\ th[t].pc = "ul_lock"
    /\ mu = NoThread
    /\ IF th[t].pluginName \in DOMAIN plugins
         THEN /\ mu' = t
              /\ th' = [th EXCEPT
                          ![t].pc = "ul_unreg",
                          ![t].inst = plugins[th[t].pluginName].Client,
                          ![t].drivers = plugins[th[t].pluginName].Drivers,
                          ![t].i = 1]
         ELSE UnloadReturn(t, FALSE)
    /\ UNCHANGED <<plugins, driverMap, driverInfoMap, driverMutex, procs,
                   nclients, raced, fatal, host>>

\* m.mu.Lock(); instance, exists := m.plugins[pluginName]
UnloadLock(t) ==
    /\ ~fatal
    /\ th[t].pc = "ul_lock"
    /\ mu = NoThread
    /\ IF th[t].pluginName \in DOMAIN plugins
         THEN /\ mu' = t
              /\ th' = [th EXCEPT
                          ![t].pc = "ul_unreg",
                          ![t].inst = plugins[th[t].pluginName].Client,
                          ![t].drivers = plugins[th[t].pluginName].Drivers,
                          ![t].i = 1]
         ELSE UnloadReturn(t, TRUE)
    /\ UNCHANGED <<plugins, driverMap, driverInfoMap, driverMutex, procs,
                   nclients, raced, fatal, host>>

\* the loop over instance.Drivers without the call of op.UnregisterDriver
UnloadNoUnregister(t) ==
    /\ ~fatal
    /\ th[t].pc = "ul_unreg"
    /\ th[t].i <= Len(th[t].drivers)
    /\ driverMutex = NoThread
    /\ th' = [th EXCEPT ![t].i = @ + 1]
    /\ UNCHANGED <<plugins, mu, driverMap, driverInfoMap, driverMutex, procs,
                   nclients, raced, fatal, host>>

\* op.UnregisterDriver without delete(driverInfoMap, name)
UnloadUnregisterKeepsInfo(t) ==
    /\ ~fatal
    /\ th[t].pc = "ul_unreg"
    /\ th[t].i <= Len(th[t].drivers)
    /\ driverMutex = NoThread
    /\ driverMap' = MapDelete(driverMap, th[t].drivers[th[t].i])
    /\ th' = [th EXCEPT ![t].i = @ + 1]
    /\ UNCHANGED <<plugins, mu, driverInfoMap, driverMutex, procs, nclients,
                   raced, fatal, host>>

\* op.UnregisterDriver(driverName) for the next name of instance.Drivers:
\* Lock; delete(driverMap, name); delete(driverInfoMap, name); Unlock
UnloadUnregister(t) ==
    /\ ~fatal
    /\ th[t].pc = "ul_unreg"
    /\ th[t].i <= Len(th[t].drivers)
    /\ driverMutex = NoThread
    /\ driverMap' = MapDelete(driverMap, th[t].drivers[th[t].i])
    /\ driverInfoMap' = driverInfoMap \ {th[t].drivers[th[t].i]}
    /\ th' = [th EXCEPT ![t].i = @ + 1]
    /\ UNCHANGED <<plugins, mu, driverMutex, procs, nclients, raced, fatal,
                   host>>

\* UnloadPlugin that kills the subprocess before the loop over
\* instance.Drivers has run
UnloadKillBeforeUnregister(t) ==
    /\ ~fatal
    /\ th[t].pc = "ul_unreg"
    /\ procs' = ClientKill(procs, th[t].inst)
    /\ th' = [th EXCEPT ![t].pc = "ul_delete"]
    /\ UNCHANGED <<plugins, mu, driverMap, driverInfoMap, driverMutex,
                   nclients, raced, fatal, host>>

\* instance.Client.Kill(), once the loop over instance.Drivers is through
UnloadKill(t) ==
    /\ ~fatal
    /\ th[t].pc = "ul_unreg"
    /\ th[t].i > Len(th[t].drivers)
    /\ procs' = ClientKill(procs, th[t].inst)
    /\ th' = [th EXCEPT ![t].pc = "ul_delete"]
    /\ UNCHANGED <<plugins, mu, driverMap, driverInfoMap, driverMutex,
                   nclients, raced, fatal, host>>

\* delete(m.plugins, pluginName); return nil
UnloadDelete(t) ==
    /\ ~fatal
    /\ th[t].pc = "ul_delete"
    /\ plugins' = MapDelete(plugins, th[t].pluginName)
    /\ UnloadReturn(t, FALSE)
    /\ UNCHANGED <<driverMap, driverInfoMap, driverMutex, procs, nclients,
                   raced, fatal, host>>

\* ---------------------------------------------------------- ReloadPlugin
StartReloadPlugin(t, name) ==
    /\ ~fatal
    /\ th[t].pc = "idle"
    /\ ClientLeft
    /\ th' = [th EXCEPT ![t] = [Idle EXCEPT !.pc = "rl_read",
                                            !.op = "ReloadPlugin",
                                            !.pluginName = name]]
    /\ UNCHANGED <<plugins, mu, driverMap, driverInfoMap, driverMutex, procs,
                   nclients, raced, fatal, host>>

\* ReloadPlugin that goes from its lookup straight to m.LoadPlugin
ReloadReadSkipsUnload(t) ==
    /\ ~fatal
    /\ th[t].pc = "rl_read"
    /\ raced' = IF mu \in {t, NoThread} THEN raced ELSE raced \cup {th[t].op}
    /\ IF th[t].pluginName \in DOMAIN plugins
         THEN th' = [th EXCEPT
                       ![t].pc = "ld_lock",
                       ![t].pluginPath = plugins[th[t].pluginName].Path,
                       ![t].orig = plugins[th[t].pluginName].Client]
         ELSE th' = [th EXCEPT ![t] = Returned(t, TRUE)]
    /\ UNCHANGED <<plugins, mu, driverMap, driverInfoMap, driverMutex, procs,
                   nclients, fatal, host>>

\* instance, exists := m.plugins[pluginName]; pluginPath := instance.Path,
\* read without taking m.mu: when another thread is inside its critical
\* section the call is recorded in raced
ReloadRead(t) ==
    /\ ~fatal
    /\ th[t].pc = "rl_read"
    /\ raced' = IF mu \in {t, NoThread} THEN raced ELSE raced \cup {th[t].op}
    /\ IF th[t].pluginName \in DOMAIN plugins
         THEN th' = [th EXCEPT
                       ![t].pc = "ul_lock",
                       ![t].pluginPath = plugins[th[t].pluginName].Path,
                       ![t].orig = plugins[th[t].pluginName].Client]
         ELSE th' = [th EXCEPT ![t] = Returned(t, TRUE)]
    /\ UNCHANGED <<plugins, mu, driverMap, driverInfoMap, driverMutex, procs,
                   nclients, fatal, host>>

\* another goroutine is about to write the map Manager.plugins
MapWriter(u) ==
    \/ th[u].pc = "ul_delete"
    \/ th[u].pc = "ld_register" /\ th[u].i > Len(th[u].drivers)

\* the raced map read of ReloadPlugin overlaps a map write of another
\* goroutine: the runtime may throw "concurrent map read and map write",
\* which ends the host process
ReloadReadFatal(t) ==
    /\ ~fatal
    /\ th[t].pc = "rl_read"
    /\ \E u \in Threads \ {t} : MapWriter(u)
    /\ fatal' = TRUE
    /\ UNCHANGED <<plugins, mu, driverMap, driverInfoMap, driverMutex, procs,
                   nclients, th, raced, host>>

\* -------------------------------------------------------------- Shutdown
StartShutdown(t) ==
    /\ ~fatal
    /\ th[t].pc = "idle"
    /\ th' = [th EXCEPT ![t] = [Idle EXCEPT !.pc = "sd_lock",
                                            !.op = "Shutdown"]]
    /\ UNCHANGED <<plugins, mu, driverMap, driverInfoMap, driverMutex, procs,
                   nclients, raced, fatal, host>>

\* m.mu.Lock(); the range over m.plugins begins
ShutdownLock(t) ==
    /\ ~fatal
    /\ th[t].pc = "sd_lock"
    /\ mu = NoThread
    /\ mu' = t
    /\ th' = [th EXCEPT ![t].pc = "sd_kill", ![t].todo = DOMAIN plugins]
    /\ UNCHANGED <<plugins, driverMap, driverInfoMap, driverMutex, procs,
                   nclients, raced, fatal, host>>

\* the range over m.plugins without the call of instance.Client.Kill()
ShutdownKillSkips(t) ==
    /\ ~fatal
    /\ th[t].pc = "sd_kill"
    /\ \E name \in th[t].todo :
         th' = [th EXCEPT ![t].todo = @ \ {name}]
    /\ UNCHANGED <<plugins, mu, driverMap, driverInfoMap, driverMutex, procs,
                   nclients, raced, fatal, host>>

\* instance.Client.Kill() for one entry; Go ranges over a map in any order
ShutdownKill(t) ==
    /\ ~fatal
    /\ th[t].pc = "sd_kill"
    /\ \E name \in th[t].todo :
         /\ procs' = ClientKill(procs, plugins[name].Client)
         /\ th' = [th EXCEPT ![t].todo = @ \ {name}]
    /\ UNCHANGED <<plugins, mu, driverMap, driverInfoMap, driverMutex,
                   nclients, raced, fatal, host>>

\* m.plugins = make(map[string]*PluginInstance); return
ShutdownClear(t) ==
    /\ ~fatal
    /\ th[t].pc = "sd_kill"
    /\ th[t].todo = {}
    /\ plugins' = EmptyMap
    /\ mu' = NoThread
    /\ th' = [th EXCEPT ![t] = Returned(t, FALSE)]
    /\ UNCHANGED <<driverMap, driverInfoMap, driverMutex, procs, nclients,
                   raced, fatal, host>>

\* ------------------------------------------------- GetLoadedPlugins
StartGetLoadedPlugins(t) ==
    /\ ~fatal
    /\ th[t].pc = "idle"
    /\ th' = [th EXCEPT ![t] = [Idle EXCEPT !.pc = "gl_read",
                                            !.op = "GetLoadedPlugins"]]
    /\ UNCHANGED <<plugins, mu, driverMap, driverInfoMap, driverMutex, procs,
                   nclients, raced, fatal, host>>

\* m.mu.RLock(); result[k] = v for every entry; RUnlock.  v is the
\* *PluginInstance the table holds, not a copy of the instance
GetLoadedPluginsRead(t) ==
    /\ ~fatal
    /\ th[t].pc = "gl_read"
    /\ mu = NoThread
    /\ th' = [th EXCEPT ![t].pc = "gl_hold",
                        ![t].result = [n \in DOMAIN plugins |->
                                         plugins[n].Client]]
    /\ UNCHANGED <<plugins, mu, driverMap, driverInfoMap, driverMutex, procs,
                   nclients, raced, fatal, host>>

\* the table entries whose *PluginInstance is the one with Client p
EntriesOf(p) == {n \in DOMAIN plugins : plugins[n].Client = p}

\* the caller runs delete(result, n) on the map it was given
CallerDeletesEntry(t) ==
    /\ ~fatal
    /\ th[t].pc = "gl_hold"
    /\ \E n \in DOMAIN th[t].result :
         th' = [th EXCEPT ![t].pc = "gl_wrote",
                          ![t].result = MapDelete(th[t].result, n)]
    /\ UNCHANGED <<plugins, mu, driverMap, driverInfoMap, driverMutex, procs,
                   nclients, raced, fatal, host>>

\* the caller runs result[n].Drivers = nil: the write goes to the instance
\* the pointer names, which is the table's own while the entry is there
CallerWritesInstance(t) ==
    /\ ~fatal
    /\ th[t].pc = "gl_hold"
    /\ \E n \in DOMAIN th[t].result :
         plugins' = [m \in DOMAIN plugins |->
                       IF m \in EntriesOf(th[t].result[n])
                         THEN [plugins[m] EXCEPT !.Drivers = << >>]
                         ELSE plugins[m]]
    /\ th' = [th EXCEPT ![t].pc = "gl_wrote"]
    /\ UNCHANGED <<mu, driverMap, driverInfoMap, driverMutex, procs,
                   nclients, raced, fatal, host>>

\* ------------------------------------------------- GetPluginDrivers
StartGetPluginDrivers(t, name) ==
    /\ ~fatal
    /\ th[t].pc = "idle"
    /\ th' = [th EXCEPT ![t] = [Idle EXCEPT !.pc = "gd_read",
                                            !.op = "GetPluginDrivers",
                                            !.pluginName = name]]
    /\ UNCHANGED <<plugins, mu, driverMap, driverInfoMap, driverMutex, procs,
                   nclients, raced, fatal, host>>

\* m.mu.RLock(); instance, exists := m.plugins[pluginName];
\* return instance.Drivers, nil: the slice of the instance itself (inst
\* names the instance whose backing array the returned slice shares)
GetPluginDriversRead(t) ==
    /\ ~fatal
    /\ th[t].pc = "gd_read"
    /\ mu = NoThread
    /\ IF th[t].pluginName \in DOMAIN plugins
         THEN th' = [th EXCEPT
                       ![t].pc = "gd_hold",
                       ![t].inst = plugins[th[t].pluginName].Client,
                       ![t].drivers = plugins[th[t].pluginName].Drivers]
         ELSE th' = [th EXCEPT ![t] = Returned(t, TRUE)]
    /\ UNCHANGED <<plugins, mu, driverMap, driverInfoMap, driverMutex, procs,
                   nclients, raced, fatal, host>>

\* the caller runs drivers[0] = d on the slice it was given
CallerWritesDriverName(t) ==
    /\ ~fatal
    /\ th[t].pc = "gd_hold"
    /\ Len(th[t].drivers) >= 1
    /\ \E d \in DriverNames :
         /\ plugins' = [m \in DOMAIN plugins |->
                          IF m \in EntriesOf(th[t].inst)
                            THEN [plugins[m] EXCEPT !.Drivers[1] = d]
                            ELSE plugins[m]]
         /\ th' = [th EXCEPT ![t].pc = "gd_wrote", ![t].drivers[1] = d]
    /\ UNCHANGED <<mu, driverMap, driverInfoMap, driverMutex, procs,
                   nclients, raced, fatal, host>>

\* ------------------------------- GetPluginClient, PluginDriverAdapter
AdapterMethods == {"Init", "Drop", "List", "Link"}

StartGetPluginClient(t, name) ==
    /\ ~fatal
    /\ th[t].pc = "idle"
    /\ th' = [th EXCEPT ![t] = [Idle EXCEPT !.pc = "gc_read",
                                            !.op = "GetPluginClient",
                                            !.pluginName = name]]
    /\ UNCHANGED <<plugins, mu, driverMap, driverInfoMap, driverMutex, procs,
                   nclients, raced, fatal, host>>

\* m.mu.RLock(); the entry is looked up; instance.Client.Client() and
\* Dispense("driver-plugin") need the subprocess.  On the stub it gets the
\* caller builds NewPluginDriverAdapter(pluginClient, driverName) for a
\* driver name of the plugin, as the constructor of registerPluginDriver
\* does
GetPluginClientRead(t) ==
    /\ ~fatal
    /\ th[t].pc = "gc_read"
    /\ mu = NoThread
    /\ IF /\ th[t].pluginName \in DOMAIN plugins
          /\ CanAnswer(plugins[th[t].pluginName].Client)
         THEN LET inst == plugins[th[t].pluginName] IN
              IF inst.Drivers = << >>
                THEN th' = [th EXCEPT ![t] = Done(t, FALSE)]
                ELSE \E d \in Range(inst.Drivers) :
                       th' = [th EXCEPT ![t].pc = "ad_idle",
                                        ![t].inst = inst.Client,
                                        ![t].driverName = d]
         ELSE th' = [th EXCEPT ![t] = Done(t, TRUE)]
    /\ UNCHANGED <<plugins, mu, driverMap, driverInfoMap, driverMutex, procs,
                   nclients, raced, fatal, host>>

\* a.SetStorage(storage)
AdapterSetStorage(t) ==
    /\ ~fatal
    /\ th[t].pc = "ad_idle"
    /\ th[t].storage = 0
    /\ th' = [th EXCEPT ![t].storage = 1]
    /\ UNCHANGED <<plugins, mu, driverMap, driverInfoMap, driverMutex, procs,
                   nclients, raced, fatal, host>>

\* the host calls a.Init, a.Drop, a.List or a.Link
StartAdapterCall(t, method) ==
    /\ ~fatal
    /\ th[t].pc = "ad_idle"
    /\ method = "Init" => th[t].inits < MaxInits
    /\ th' = [th EXCEPT ![t].pc = "ad_call", ![t].method = method,
                        ![t].calls = 0, ![t].rpc = "none", ![t].err = FALSE]
    /\ UNCHANGED <<plugins, mu, driverMap, driverInfoMap, driverMutex, procs,
                   nclients, raced, fatal, host>>

\* a.Init with a.storage nil: structToMap(*a.storage) dereferences nil and
\* the goroutine panics
AdapterInitNil(t) ==
    /\ ~fatal
    /\ th[t].pc = "ad_call"
    /\ th[t].method = "Init"
    /\ th[t].storage = 0
    /\ fatal' = TRUE
    /\ UNCHANGED <<plugins, mu, driverMap, driverInfoMap, driverMutex, procs,
                   nclients, th, raced, host>>

\* an adapter method that calls the stub once more when the call fails
AdapterCallRetries(t) ==
    /\ ~fatal
    /\ th[t].pc = "ad_call"
    /\ th[t].method = "Init" => th[t].storage # 0
    /\ \E conv \in BOOLEAN, dec \in BOOLEAN,
          ok \in IF CanAnswer(th[t].inst) THEN BOOLEAN ELSE {FALSE} :
         th' = [th EXCEPT
                  ![t].pc = "ad_idle",
                  ![t].calls = IF ~conv THEN 0 ELSE IF ok THEN 1 ELSE 2,
                  ![t].rpc = IF ~conv THEN "none"
                             ELSE IF ok THEN "ok" ELSE "failed",
                  ![t].inits = IF conv /\ th[t].method = "Init"
                                 THEN @ + (IF ok THEN 1 ELSE 2) ELSE @,
                  ![t].err = \/ ~conv
                             \/ ~ok
                             \/ th[t].method \in {"List", "Link"} /\ ~dec]
    /\ UNCHANGED <<plugins, mu, driverMap, driverInfoMap, driverMutex, procs,
                   nclients, raced, fatal, host>>

\* a.Init, a.Drop, a.List, a.Link.  conv: structToMap of the arguments
\* succeeds (if not, the method returns that error and calls nothing);
\* ok: the one stub call, a single g.client.Call, returns no error, which
\* takes a live subprocess; dec: json.Unmarshal of the response of List or
\* Link succeeds.  The error of the stub call is returned as it is
AdapterCall(t) ==
    /\ ~fatal
    /\ th[t].pc = "ad_call"
    /\ th[t].method = "Init" => th[t].storage # 0
    /\ \E conv \in BOOLEAN, dec \in BOOLEAN,
          ok \in IF CanAnswer(th[t].inst) THEN BOOLEAN ELSE {FALSE} :
         th' = [th EXCEPT
                  ![t].pc = "ad_idle",
                  ![t].calls = IF conv THEN 1 ELSE 0,
                  ![t].rpc = IF ~conv THEN "none"
                             ELSE IF ok THEN "ok" ELSE "failed",
                  ![t].inits = IF conv /\ th[t].method = "Init"
                                 THEN @ + 1 ELSE @,
                  ![t].err = \/ ~conv
                             \/ ~ok
                             \/ th[t].method \in {"List", "Link"} /\ ~dec]
    /\ UNCHANGED <<plugins, mu, driverMap, driverInfoMap, driverMutex, procs,
                   nclients, raced, fatal, host>>

\* the caller lets go of the value an accessor returned, or of its adapter
CallerDrop(t) ==
    /\ ~fatal
    /\ th[t].pc \in {"gl_hold", "gl_wrote", "gd_hold", "gd_wrote", "ad_idle"}
    /\ th' = [th EXCEPT ![t] = Idle]
    /\ UNCHANGED <<plugins, mu, driverMap, driverInfoMap, driverMutex, procs,
                   nclients, raced, fatal, host>>

\* ------------------------------------- LoadPluginsFromDir, RescanPlugins
\* the loop over pluginDirs of cmd.loadPlugins and of RescanPlugins: the
\* next LoadPluginsFromDir call, or the end of the loop (RescanPlugins
\* returns nil, cmd.Init goes on to bootstrap.InitDB)
ScanDirs(t) ==
    /\ ~fatal
    /\ th[t].pc = "sc_dirs"
    /\ th' = [th EXCEPT ![t] =
                IF th[t].dirs = << >>
                  THEN IF th[t].op = "Init"
                         THEN [Idle EXCEPT !.pc = "in_db", !.op = "Init"]
                         ELSE Done(t, FALSE)
                  ELSE [th[t] EXCEPT !.pc = "sc_stat", !.scan = << >>,
                                     !.tried = {}, !.failed = {}]]
    /\ UNCHANGED <<plugins, mu, driverMap, driverInfoMap, driverMutex, procs,
                   nclients, raced, fatal, host>>

\* LoadPluginsFromDir returns e to the loop over pluginDirs, which logs an
\* error and goes on
ScanReturn(t, e) ==
    /\ th' = [th EXCEPT ![t].pc = "sc_dirs", ![t].dirs = Tail(@),
                        ![t].scan = << >>, ![t].err = e]
    /\ host' = IF th[t].op = "Init"
                 THEN [host EXCEPT !.scanned = @ \cup {Head(th[t].dirs)}]
                 ELSE host

\* LoadPluginsFromDir: os.Stat(dir), os.ReadDir(dir)
ScanStat(t) ==
    /\ ~fatal
    /\ th[t].pc = "sc_stat"
    /\ LET dir == Head(th[t].dirs) IN
         IF ~DirExists(dir)
           THEN ScanReturn(t, FALSE)
           ELSE IF ~DirReadable(dir)
             THEN ScanReturn(t, TRUE)
             ELSE /\ th' = [th EXCEPT ![t].pc = "sc_entry",
                                      ![t].scan = DirEntries(dir)]
                  /\ host' = host
    /\ UNCHANGED <<plugins, mu, driverMap, driverInfoMap, driverMutex,
                   procs, nclients, raced, fatal>>

\* one round of the loop over the entries: a directory and a file with
\* another extension are passed over, m.LoadPlugin is called for the rest;
\* after the last entry LoadPluginsFromDir returns nil
ScanEntry(t) ==
    /\ ~fatal
    /\ th[t].pc = "sc_entry"
    /\ IF th[t].scan = << >>
         THEN ScanReturn(t, FALSE)
         ELSE LET name == Head(th[t].scan) IN
              /\ host' = host
              /\ IF IsDir(name) \/ ~(Ext(name) = ".exe" \/ Ext(name) = "")
                   THEN th' = [th EXCEPT ![t].scan = Tail(@)]
                   ELSE th' = [th EXCEPT
                                 ![t].pc = "ld_lock",
                                 ![t].pluginPath =
                                     JoinPath(Head(th[t].dirs), name),
                                 ![t].scan = Tail(@),
                                 ![t].tried = @ \cup {name}]
    /\ UNCHANGED <<plugins, mu, driverMap, driverInfoMap, driverMutex,
                   procs, nclients, raced, fatal>>

\* RescanPlugins is called while the host runs
StartRescanPlugins(t) ==
    /\ ~fatal
    /\ th[t].pc = "idle"
    /\ host.db = "open"
    /\ host.rescans < MaxRescans
    /\ host' = [host EXCEPT !.rescans = @ + 1]
    /\ th' = [th EXCEPT ![t] = [Idle EXCEPT !.pc = "sc_dirs",
                                            !.op = "RescanPlugins",
                                            !.dirs = PluginDirs]]
    /\ UNCHANGED <<plugins, mu, driverMap, driverInfoMap, driverMutex,
                   procs, nclients, raced, fatal>>

\* ------------------------------------------------- cmd.Init, cmd.Release
\* cmd.Init: InitConfig, Log, then loadPlugins()
StartInit(t) ==
    /\ ~fatal
    /\ th[t].pc = "idle"
    /\ host.db = "unopened"
    /\ th' = [th EXCEPT ![t] = [Idle EXCEPT !.pc = "sc_dirs", !.op = "Init",
                                            !.dirs = PluginDirs]]
    /\ UNCHANGED <<plugins, mu, driverMap, driverInfoMap, driverMutex, procs,
                   nclients, raced, fatal, host>>

\* bootstrap.InitDB() and the rest of cmd.Init
InitDB(t) ==
    /\ ~fatal
    /\ th[t].pc = "in_db"
    /\ host' = [host EXCEPT !.db = "open"]
    /\ th' = [th EXCEPT ![t] = Done(t, FALSE)]
    /\ UNCHANGED <<plugins, mu, driverMap, driverInfoMap, driverMutex,
                   procs, nclients, raced, fatal>>

\* cmd.Release that goes straight to db.Close()
ReleaseSkipsShutdown(t) ==
    /\ ~fatal
    /\ th[t].pc = "idle"
    /\ host.db = "open"
    /\ th' = [th EXCEPT ![t] = BackInRelease]
    /\ UNCHANGED <<plugins, mu, driverMap, driverInfoMap, driverMutex, procs,
                   nclients, raced, fatal, host>>

\* cmd.Release: plugin.GetManager().Shutdown() is called
StartRelease(t) ==
    /\ ~fatal
    /\ th[t].pc = "idle"
    /\ host.db = "open"
    /\ th' = [th EXCEPT ![t] = [Idle EXCEPT !.pc = "sd_lock",
                                            !.op = "Release"]]
    /\ UNCHANGED <<plugins, mu, driverMap, driverInfoMap, driverMutex, procs,
                   nclients, raced, fatal, host>>

\* db.Close(), the last statement of cmd.Release
CloseDB(t) ==
    /\ ~fatal
    /\ th[t].pc = "rel_close"
    /\ host' = [host EXCEPT !.db = "closed"]
    /\ th' = [th EXCEPT ![t] = Done(t, FALSE)]
    /\ UNCHANGED <<plugins, mu, driverMap, driverInfoMap, driverMutex,
                   procs, nclients, raced, fatal>>

\* ------------------------------------------------------------ environment
\* the plugin subprocess exits on its own
\* (an exit while LoadPlugin is still talking to it is the failing branch
\* of that remote call)
PluginExit(p) ==
    /\ ~fatal
    /\ Alive(p)
    /\ \E n \in DOMAIN plugins : plugins[n].Client = p
    /\ procs' = [procs EXCEPT ![p] = "exited"]
    /\ UNCHANGED <<plugins, mu, driverMap, driverInfoMap, driverMutex,
                   nclients, th, raced, fatal, host>>

Next ==
    \/ \E t \in Threads, path \in Paths : StartLoadPlugin(t, path)
    \/ \E t \in Threads : Finish(t)
    \/ \E t \in Threads : LoadLock(t)
    \/ \E t \in Threads : LoadConnect(t)
    \/ \E t \in Threads : LoadDispense(t)
    \/ \E t \in Threads : LoadGetInfo(t)
    \/ \E t \in Threads : LoadGetDrivers(t)
    \/ \E t \in Threads : RegisterPluginDriverCheck(t)
    \/ \E t \in Threads, d \in DriverNames : StartRegisterDriver(t, d)
    \/ \E t \in Threads : RegisterDriverLock(t)
    \/ \E t \in Threads : LoadStore(t)
    \/ \E t \in Threads, name \in PluginNames : StartUnloadPlugin(t, name)
    \/ \E t \in Threads : UnloadLock(t)
    \/ \E t \in Threads : UnloadUnregister(t)
    \/ \E t \in Threads : UnloadKill(t)
    \/ \E t \in Threads : UnloadDelete(t)
    \/ \E t \in Threads, name \in PluginNames : StartReloadPlugin(t, name)
    \/ \E t \in Threads : ReloadRead(t)
    \/ \E t \in Threads : ReloadReadFatal(t)
    \/ \E t \in Threads : StartShutdown(t)
    \/ \E t \in Threads : ShutdownLock(t)
    \/ \E t \in Threads : ShutdownKill(t)
    \/ \E t \in Threads : ShutdownClear(t)
    \/ \E p \in ProcIds : PluginExit(p)

Spec == Init /\ [][Next]_vars

\* the steps of the call thread t is running (starting a new call is the
\* caller's choice, not an obligation)
Proceed(t) ==
    \/ Finish(t)
    \/ LoadLock(t) \/ LoadConnect(t) \/ LoadDispense(t) \/ LoadGetInfo(t)
    \/ LoadGetDrivers(t) \/ RegisterPluginDriverCheck(t)
    \/ RegisterDriverLock(t) \/ LoadStore(t)
    \/ UnloadLock(t) \/ UnloadUnregister(t) \/ UnloadKill(t)
    \/ UnloadDelete(t)
    \/ ReloadRead(t)
    \/ ShutdownLock(t) \/ ShutdownKill(t) \/ ShutdownClear(t)

\* the Go scheduler runs every goroutine that is not blocked
FairSpec == Spec /\ \A t \in Threads : WF_vars(Proceed(t))

\* ------------------------------------------------------ the host program
\* the main goroutine runs cmd.Init, then RescanPlugins calls, then
\* cmd.Release
MainThread == "t1"

\* every file of the plugin directories LoadPlugin is called for
AllCandidates == UNION {Candidates(PluginDirs[k]) : k \in DOMAIN PluginDirs}

\* one LoadPlugin per candidate file in cmd.Init and in every rescan
HostProcIds == 1..(Cardinality(AllCandidates) * (MaxRescans + 1))

HostNext ==
    \/ StartInit(MainThread)
    \/ ScanDirs(MainThread)
    \/ ScanStat(MainThread)
    \/ ScanEntry(MainThread)
    \/ LoadLock(MainThread)
    \/ LoadConnect(MainThread)
    \/ LoadDispense(MainThread)
    \/ LoadGetInfo(MainThread)
    \/ LoadGetDrivers(MainThread)
    \/ RegisterPluginDriverCheck(MainThread)
    \/ RegisterDriverLock(MainThread)
    \/ LoadStore(MainThread)
    \/ InitDB(MainThread)
    \/ StartRescanPlugins(MainThread)
    \/ StartRelease(MainThread)
    \/ ShutdownLock(MainThread)
    \/ ShutdownKill(MainThread)
    \/ ShutdownClear(MainThread)
    \/ CloseDB(MainThread)
    \/ Finish(MainThread)
    \/ \E p \in HostProcIds : PluginExit(p)

HostSpec == InitWith(HostProcIds) /\ [][HostNext]_vars

\* ------------------------------------------------- callers of the accessors
\* one goroutine loads and unloads plugins while another one uses the
\* values the accessors of the Manager hand out
ManagerThread == "t1"
CallerThread == "t2"

CallerNext ==
    \/ \E path \in Paths : StartLoadPlugin(ManagerThread, path)
    \/ \E t \in Threads : Finish(t)
    \/ LoadLock(ManagerThread)
    \/ LoadConnect(ManagerThread)
    \/ LoadDispense(ManagerThread)
    \/ LoadGetInfo(ManagerThread)
    \/ LoadGetDrivers(ManagerThread)
    \/ RegisterPluginDriverCheck(ManagerThread)
    \/ RegisterDriverLock(ManagerThread)
    \/ LoadStore(ManagerThread)
    \/ \E name \in PluginNames : StartUnloadPlugin(ManagerThread, name)
    \/ UnloadLock(ManagerThread)
    \/ UnloadUnregister(ManagerThread)
    \/ UnloadKill(ManagerThread)
    \/ UnloadDelete(ManagerThread)
    \/ \E p \in ProcIds : PluginExit(p)
    \/ StartGetLoadedPlugins(CallerThread)
    \/ GetLoadedPluginsRead(CallerThread)
    \/ CallerDeletesEntry(CallerThread)
    \/ CallerWritesInstance(CallerThread)
    \/ \E name \in PluginNames : StartGetPluginDrivers(CallerThread, name)
    \/ GetPluginDriversRead(CallerThread)
    \/ CallerWritesDriverName(CallerThread)
    \/ \E name \in PluginNames : StartGetPluginClient(CallerThread, name)
    \/ GetPluginClientRead(CallerThread)
    \/ AdapterSetStorage(CallerThread)
    \/ \E method \in AdapterMethods : StartAdapterCall(CallerThread, method)
    \/ AdapterInitNil(CallerThread)
    \/ AdapterCall(CallerThread)
    \/ CallerDrop(CallerThread)

CallerSpec == Init /\ [][CallerNext]_vars

\* ------------------------------------------------------------------ claims
LoadPCs == {"ld_lock", "ld_connect", "ld_dispense", "ld_getinfo",
            "ld_getdrivers", "ld_register", "rd_lock"}

\* this step is taken by thread t inside LoadPlugin
LoadStepBy(t) ==
    /\ th[t].op \in {"LoadPlugin", "ReloadPlugin"}
    /\ th[t].pc \in LoadPCs
    /\ th'[t] # th[t]

\* C1: the table holds at most one entry per plugin identity name (every
\* entry sits under its own identity and no two entries share a subprocess);
\* no step of LoadPlugin changes or removes an entry that is already in the
\* table or touches its subprocess; and a LoadPlugin that reaches the
\* identity test with its identity already in the table returns at once
\* with its own new subprocess terminated and the registry as it was.
C1_LoadIdempotentByIdentity ==
    [][/\ \A n \in DOMAIN plugins' :
            /\ plugins'[n].Name = n
            /\ \A m \in DOMAIN plugins' \ {n} :
                   plugins'[m].Client # plugins'[n].Client
       /\ \A t \in Threads : LoadStepBy(t) =>
            \A n \in DOMAIN plugins :
                /\ n \in DOMAIN plugins'
                /\ plugins'[n] = plugins[n]
                /\ procs'[plugins[n].Client] = procs[plugins[n].Client]
       /\ \A t \in Threads :
            (/\ LoadStepBy(t)
             /\ th[t].pc = "ld_getinfo"
             /\ InfoName(th[t].pluginPath) \in DOMAIN plugins)
            => /\ th'[t].pc = "done"
               /\ procs'[th[t].client] = "killed"
               /\ driverMap' = driverMap]_vars

\* C1 witness: a LoadPlugin has returned nil for an identity that another,
\* still running subprocess holds in the table, its own subprocess killed.
C1_Witness ==
    \E t \in Threads :
        /\ th[t].pc = "done"
        /\ th[t].op = "LoadPlugin"
        /\ ~th[t].err
        /\ InfoName(th[t].pluginPath) \in DOMAIN plugins
        /\ plugins[InfoName(th[t].pluginPath)].Client # th[t].client
        /\ Alive(plugins[InfoName(th[t].pluginPath)].Client)
        /\ procs[th[t].client] = "killed"

\* C2: a LoadPlugin of the executable reporting identity "demo" with drivers
\* ["DemoFS"] that has handshaked and enumerated, "DemoFS" not being
\* registered, returns nil with "DemoFS" in the registry and "demo" in the
\* table (unless the runtime has aborted the process).
C2_LoadDemoReturnsRegistered ==
    \A t \in Threads :
        (/\ th[t].op = "LoadPlugin"
         /\ th[t].pluginPath = "demo.exe"
         /\ th[t].pc = "ld_register"
         /\ th[t].i = 1
         /\ ~IsDriverRegistered("DemoFS"))
        ~> (\/ /\ th[t].pc = "done"
               /\ ~th[t].err
               /\ IsDriverRegistered("DemoFS")
               /\ "demo" \in DOMAIN plugins
            \/ fatal)

\* thread t is inside op.RegisterDriver, called by registerPluginDriver
InRegisterDriver(t) ==
    /\ th[t].op \in {"LoadPlugin", "ReloadPlugin"}
    /\ th[t].pc \in {"rd_lock", "rdi_lock"}

\* C3: while a plugin is loaded, the Manager never calls op.RegisterDriver
\* for a driver name that is registered, and no step of LoadPlugin removes
\* or replaces the constructor the registry holds for a name.
C3_NoRegistrationOverExisting ==
    [][/\ \A t \in Threads : InRegisterDriver(t)' =>
            ~IsDriverRegistered(th[t].drivers[th[t].i])'
       /\ \A t \in Threads : LoadStepBy(t) =>
            \A d \in DOMAIN driverMap :
                /\ d \in DOMAIN driverMap'
                /\ driverMap'[d] = driverMap[d]]_vars

\* C3 witness: a load has skipped a name it enumerated, which the registry
\* holds for a built-in driver, and has gone on past it.
C3_Witness ==
    \E t \in Threads :
        /\ th[t].pc = "ld_register"
        /\ th[t].i = 2
        /\ IsDriverRegistered(th[t].drivers[1])
        /\ driverMap[th[t].drivers[1]] = BuiltinConstructor(th[t].drivers[1])

\* C4: the step on which UnloadPlugin succeeds leaves every name of the
\* instance's Drivers out of the registry (both maps), the instance's
\* subprocess terminated and the table without an entry for the name; and
\* UnloadPlugin succeeds on no other step.
C4_UnloadRemovesDriversProcessEntry ==
    [][\A t \in Threads :
        /\ (th[t].pc = "ul_delete" /\ th'[t] # th[t]) =>
              /\ \A d \in Range(plugins[th[t].pluginName].Drivers) :
                     /\ ~IsDriverRegistered(d)'
                     /\ d \notin driverInfoMap'
              /\ ~AliveIn(procs', plugins[th[t].pluginName].Client)
              /\ th[t].pluginName \notin DOMAIN plugins'
              /\ th[t].op = "UnloadPlugin" =>
                     (th'[t].pc = "done" /\ ~th'[t].err)
        /\ (/\ th[t].op = "UnloadPlugin"
            /\ th[t].pc # "done"
            /\ th'[t].pc = "done"
            /\ ~th'[t].err) => th[t].pc = "ul_delete"]_vars

\* C4 witness: UnloadPlugin("loc") has returned nil; loc enumerates "Local",
\* which is gone from the registry, and the table has no entry "loc".
C4_Witness ==
    \E t \in Threads :
        /\ th[t].pc = "done"
        /\ th[t].op = "UnloadPlugin"
        /\ ~th[t].err
        /\ th[t].pluginName = "loc"
        /\ ~IsDriverRegistered("Local")
        /\ "loc" \notin DOMAIN plugins
        /\ \E p \in ProcIds : procs[p] = "killed"

\* C5: a LoadPlugin that returns an error has terminated the subprocess it
\* spawned (if it got as far as creating a client), and no step of a
\* LoadPlugin that ends in an error adds an entry to the table or a name to
\* the registry; while a load is under way its client is in no entry.
C5_FailedLoadLeavesNothing ==
    [][\A t \in Threads :
        /\ (LoadStepBy(t) /\ th'[t].pc = "done" /\ th'[t].err) =>
              /\ th[t].client # 0 => ~AliveIn(procs', th[t].client)
              /\ plugins' = plugins
              /\ driverMap' = driverMap
              /\ driverInfoMap' = driverInfoMap
              /\ mu' = NoThread
        /\ (th'[t].pc \in LoadPCs \cup {"rdi_lock"}) =>
              /\ \A n \in DOMAIN plugins' :
                     plugins'[n].Client # th'[t].client
              /\ \A d \in DOMAIN driverMap' :
                     driverMap'[d] # PluginConstructor(th'[t].client, d)]_vars

\* C5 witness: a LoadPlugin has returned an error after creating its
\* client, whose subprocess is terminated and appears in no entry.
C5_Witness ==
    \E t \in Threads :
        /\ th[t].pc = "done"
        /\ th[t].op = "LoadPlugin"
        /\ th[t].err
        /\ th[t].client # 0
        /\ procs[th[t].client] = "killed"
        /\ \A n \in DOMAIN plugins : plugins[n].Client # th[t].client

\* C6: whenever no Manager call holds the lock, a subprocess has an entry in
\* the table exactly when it is alive and has completed the handshake.
C6_EntryIffAliveHandshaked ==
    mu = NoThread =>
        \A p \in ProcIds :
            (\E n \in DOMAIN plugins : plugins[n].Client = p) <=> Handshaked(p)

\* C7: no call reads or writes the table, without holding the lock, while
\* another thread holds the lock exclusively.
C7_TableAccessUnderLock == raced = {}

\* thread t has a load under way
Loading(t) == th[t].pc \in LoadPCs \cup {"rdi_lock"}

\* C8: a constructor in the registry that is bound to a plugin subprocess
\* belongs to a subprocess that has handshaked and enumerated, and the table
\* shows an entry only for a subprocess that has handshaked and enumerated
\* and whose LoadPlugin has finished its registrations.
C8_NoPartialPlugin ==
    /\ \A d \in DOMAIN driverMap :
          driverMap[d].kind = "plugin" =>
              procs[driverMap[d].client] \notin {"none", "spawned", "handshaked"}
    /\ \A n \in DOMAIN plugins :
          /\ procs[plugins[n].Client] \notin {"none", "spawned", "handshaked"}
          /\ \A t \in Threads :
                 Loading(t) => th[t].client # plugins[n].Client

\* C8 witness: a load under way has handshaked and enumerated and is at its
\* registrations; neither the table nor the registry shows its plugin.
C8_Witness ==
    \E t \in Threads :
        /\ th[t].pc = "ld_register"
        /\ procs[th[t].client] = "enumerated"
        /\ InfoName(th[t].pluginPath) \notin DOMAIN plugins
        /\ \A d \in DOMAIN driverMap : driverMap[d].client # th[t].client

\* the step on which the ReloadPlugin of thread t returns
ReloadReturns(t) ==
    th[t].op = "ReloadPlugin" /\ th[t].pc # "done" /\ th'[t].pc = "done"

\* C9: ReloadPlugin runs the steps of UnloadPlugin(name) and then those of
\* LoadPlugin(instance.Path).  When it returns nil the subprocess of the
\* instance it found is terminated, the table has an entry for the name and
\* that entry and every constructor of the registry belong to another
\* subprocess than the original one.  When its load step fails it returns
\* an error, the original subprocess and the one it spawned are terminated
\* and neither has an entry or a constructor.
C9_ReloadIsUnloadThenLoad ==
    [][\A t \in Threads :
        /\ (ReloadReturns(t) /\ ~th'[t].err) =>
              /\ th[t].pc \in {"ld_getinfo", "ld_register"}
              /\ th[t].orig # 0
              /\ ~AliveIn(procs', th[t].orig)
              /\ th[t].pluginName \in DOMAIN plugins'
              /\ plugins'[th[t].pluginName].Client # th[t].orig
              /\ \A d \in DOMAIN driverMap' :
                     driverMap'[d].client # th[t].orig
        /\ (ReloadReturns(t) /\ th'[t].err /\ th[t].pc \in LoadPCs) =>
              /\ ~AliveIn(procs', th[t].orig)
              /\ th[t].client # 0 => ~AliveIn(procs', th[t].client)
              /\ \A n \in DOMAIN plugins' :
                     plugins'[n].Client \notin {th[t].orig, th[t].client}
              /\ \A d \in DOMAIN driverMap' :
                     driverMap'[d].kind = "plugin" =>
                         driverMap'[d].client
                             \notin {th[t].orig, th[t].client}
        /\ (th[t].op = "ReloadPlugin" /\ th[t].pc = "ul_delete"
            /\ th'[t] # th[t]) =>
              /\ th'[t].pc = "ld_lock"
              /\ th'[t].pluginPath = plugins[th[t].pluginName].Path]_vars

\* C9 witness: a ReloadPlugin has returned nil; the subprocess of the
\* instance it found is killed and the entry holds the one it spawned.
C9_Witness ==
    \E t \in Threads :
        /\ th[t].pc = "done"
        /\ th[t].op = "ReloadPlugin"
        /\ ~th[t].err
        /\ procs[th[t].orig] = "killed"
        /\ th[t].pluginName \in DOMAIN plugins
        /\ plugins[th[t].pluginName].Client = th[t].client
        /\ Alive(th[t].client)

\* C9 witness of the failing case: the load step of a ReloadPlugin has
\* failed and the plugin is left unloaded.
C9_WitnessLoadFails ==
    \E t \in Threads :
        /\ th[t].pc = "done"
        /\ th[t].op = "ReloadPlugin"
        /\ th[t].err
        /\ th[t].client # 0
        /\ th[t].pluginName \notin DOMAIN plugins

\* the step on which UnloadPlugin, run by thread t, kills the subprocess
UnloadKills(t) == th[t].pc = "ul_unreg" /\ th'[t].pc = "ul_delete"

\* the step on which Shutdown, run by thread t, kills the subprocess of entry n
ShutdownKills(t, n) ==
    th[t].pc = "sd_kill" /\ n \in th[t].todo /\ n \notin th'[t].todo

LooksUpAbsent(t) ==
    /\ \/ th[t].op = "UnloadPlugin" /\ th[t].pc = "ul_lock"
       \/ th[t].op = "ReloadPlugin" /\ th[t].pc = "rl_read"
    /\ th[t].pluginName \notin DOMAIN plugins
    /\ th'[t] # th[t]

\* C12: UnloadPlugin and ReloadPlugin of a name without an entry return an
\* error, and that step leaves the table, both registry maps and every
\* plugin process as they were.
C12_NotFoundChangesNothing ==
    [][\A t \in Threads :
          LooksUpAbsent(t)
          => /\ th'[t].pc = "done"
             /\ th'[t].err
             /\ plugins' = plugins
             /\ driverMap' = driverMap
             /\ driverInfoMap' = driverInfoMap
             /\ procs' = procs]_vars

\* an UnloadPlugin and a ReloadPlugin have both returned not-found while
\* the table holds another plugin whose process runs
C12_Witness ==
    \E t \in Threads, u \in Threads :
        /\ th[t].op = "UnloadPlugin" /\ th[t].pc = "done" /\ th[t].err
        /\ th[u].op = "ReloadPlugin" /\ th[u].pc = "done" /\ th[u].err
        /\ th[u].orig = 0
        /\ th[t].pluginName \notin DOMAIN plugins
        /\ th[u].pluginName \notin DOMAIN plugins
        /\ \E n \in DOMAIN plugins : Alive(plugins[n].Client)

\* C13: a driver name that registerPluginDriver found unregistered is
\* registered for the plugin that enumerated it (unless the runtime has
\* aborted the process); the names found registered are skipped.
C13_UnregisteredNameGetsRegistered ==
    \A t \in Threads, d \in DriverNames, p \in ProcIds :
        (/\ th[t].pc = "rd_lock"
         /\ th[t].client = p
         /\ th[t].drivers[th[t].i] = d)
        ~> (\/ /\ d \in DOMAIN driverMap
               /\ driverMap[d] = PluginConstructor(p, d)
            \/ fatal)

C15_CallerWriteLeavesTable ==
    [][\A t \in Threads :
          (/\ th[t].pc \in {"gl_hold", "gd_hold"}
           /\ th'[t].pc \in {"gl_wrote", "gd_wrote"})
          => plugins' = plugins]_vars

\* C16: the database is opened only after cmd.Init has been through every
\* plugin directory, no load being under way; it is closed only after the
\* Shutdown of cmd.Release has returned: the table is empty, the Manager
\* lock is free and no plugin process is left to be called.
C16_PluginsBeforeDBShutdownBeforeClose ==
    [][/\ (host.db = "unopened" /\ host'.db = "open")
          => /\ host.scanned = Range(PluginDirs)
             /\ mu = NoThread
       /\ (host.db = "open" /\ host'.db = "closed")
          => /\ plugins = EmptyMap
             /\ mu = NoThread
             /\ \A p \in DOMAIN procs : ~Alive(p)]_vars

\* cmd.Init has been through all directories and opened the database with
\* two plugins loaded; cmd.Release is inside Shutdown, which has killed
\* both, and db.Close() is still to come
C16_Witness ==
    \E t \in Threads :
        /\ th[t].op = "Release"
        /\ th[t].pc = "sd_kill"
        /\ th[t].todo = {}
        /\ host.db = "open"
        /\ host.scanned = Range(PluginDirs)
        /\ Cardinality(DOMAIN plugins) = 2
        /\ \A n \in DOMAIN plugins : procs[plugins[n].Client] = "killed"

\* C17: LoadPluginsFromDir of a directory that does not exist returns nil
\* having started no plugin and written nothing; LoadPluginsFromDir of a
\* directory it could read returns only after LoadPlugin has been called
\* for every candidate file, whatever those calls returned, and returns nil.
C17_ScanSurvivesFailures ==
    [][\A t \in Threads :
          /\ (/\ th[t].pc = "sc_stat"
              /\ ~DirExists(Head(th[t].dirs))
              /\ th'[t] # th[t])
             => /\ th'[t].pc = "sc_dirs"
                /\ ~th'[t].err
                /\ plugins' = plugins
                /\ procs' = procs
                /\ nclients' = nclients
          /\ (th[t].pc = "sc_entry" /\ th'[t].pc = "sc_dirs")
             => /\ ~th'[t].err
                /\ th[t].tried = Candidates(Head(th[t].dirs))]_vars

\* the scan of ./plugins is at its end: LoadPlugin failed for util.exe, the
\* first candidate, and loc.exe after it was loaded all the same
C17_Witness ==
    \E t \in Threads :
        /\ th[t].pc = "sc_entry"
        /\ th[t].scan = << >>
        /\ "util.exe" \in th[t].failed
        /\ "loc.exe" \in th[t].tried \ th[t].failed
        /\ "loc" \in DOMAIN plugins

\* C18: no step of RescanPlugins removes or changes an entry of the table,
\* stops or restarts the process of an entry, or changes the registry: a
\* rescan can only add entries under names the table does not hold.
C18_RescanLeavesLoadedUntouched ==
    [][\A t \in Threads :
          (th[t].op = "RescanPlugins" /\ th'[t] # th[t])
          => /\ \A n \in DOMAIN plugins :
                   /\ n \in DOMAIN plugins'
                   /\ plugins'[n] = plugins[n]
                   /\ procs'[plugins[n].Client] = procs[plugins[n].Client]
             /\ driverMap' = driverMap
             /\ driverInfoMap' = driverInfoMap]_vars

\* a rescan has called LoadPlugin for util.exe while "util" was loaded:
\* the process it started for the file is killed, the entry cmd.Init made
\* is there and its process runs
C18_Witness ==
    \E t \in Threads :
        /\ th[t].op = "RescanPlugins"
        /\ th[t].pc = "sc_entry"
        /\ "util.exe" \in th[t].tried \ th[t].failed
        /\ "util" \in DOMAIN plugins
        /\ Alive(plugins["util"].Client)
        /\ plugins["util"].Client <= Cardinality(AllCandidates)
        /\ procs[Cardinality(AllCandidates) + 1] = "killed"

\* C19: an adapter method returns after at most one stub call; when that
\* call failed the method returns an error, the process goes on running,
\* and the table, the registry and the plugin processes are as before.
C19_AdapterCallsOnceAndReturnsError ==
    [][\A t \in Threads :
          (th[t].pc = "ad_call" /\ th'[t].pc = "ad_idle")
          => /\ th'[t].calls <= 1
             /\ th'[t].rpc = "failed" => th'[t].err
             /\ ~fatal'
             /\ plugins' = plugins
             /\ driverMap' = driverMap
             /\ driverInfoMap' = driverInfoMap
             /\ procs' = procs]_vars

\* a.List has returned the error of its one stub call: the plugin the
\* adapter was built on was unloaded, its process killed
C19_Witness ==
    \E t \in Threads :
        /\ th[t].pc = "ad_idle"
        /\ th[t].method = "List"
        /\ th[t].calls = 1
        /\ th[t].rpc = "failed"
        /\ th[t].err
        /\ procs[th[t].inst] = "killed"
        /\ th[t].pluginName \notin DOMAIN plugins

\* C20: Plugin.InitDriver is sent at most once for the (plugin, driver,
\* storage) of an adapter.
C20_InitDriverAtMostOnce ==
    \A t \in Threads : th[t].inits <= 1

\* C21: a call of op.RegisterDriver, made by a plugin load or by a host
\* package, returns and leaves driverMutex released (unless the runtime has
\* aborted the process).
C21_RegisterDriverReturns ==
    \A t \in Threads :
        (th[t].pc = "rd_lock")
        ~> (\/ /\ th[t].pc \notin {"rd_lock", "rdi_lock"}
               /\ driverMutex # t
            \/ fatal)

\* C22: a step of UnloadPlugin removes from the registry only a name whose
\* registered constructor was contributed by the plugin being unloaded; a
\* name the plugin enumerated while another owner held it stays registered.
C22_UnloadRemovesOnlyOwnDrivers ==
    [][\A t \in Threads : \A d \in DOMAIN driverMap :
          (/\ th[t].pc = "ul_unreg"
           /\ th'[t] # th[t]
           /\ d \notin DOMAIN driverMap')
          => driverMap[d] = PluginConstructor(th[t].inst, d)]_vars

\* C23: the constructor map and the driver-info map of the registry hold the
\* same names, so GetDriverNames returns a name exactly when GetDriver
\* succeeds for it.
C23_RegistryMapsAgree ==
    /\ driverInfoMap = DOMAIN driverMap
    /\ \A d \in DriverNames : (d \in GetDriverNames) <=> ~GetDriver(d).err

\* C23 witness: an UnloadPlugin has completed op.UnregisterDriver("Local"),
\* the first name of its plugin; GetDriverNames no longer returns the name
\* and GetDriver fails for it.
C23_Witness ==
    \E t \in Threads :
        /\ th[t].op = "UnloadPlugin"
        /\ th[t].pc = "ul_unreg"
        /\ th[t].i = 2
        /\ th[t].drivers[1] = "Local"
        /\ "Local" \notin GetDriverNames
        /\ GetDriver("Local").err

====
